---- MODULE Spec2Model ----
(***************************************************************************)
(* A model of ka-progress (src/src/ka_progress/app.py): the driver main,   *)
(* KAProgress.traverse_course, KAProgress.fetch_unit_progress with its     *)
(* on_response listener, and the fold update_unit_status_from_payload.     *)
(*                                                                         *)
(* Spec     is the whole program: one asyncio task whose awaits are the    *)
(*          control points of pc, and the browser page as its environment. *)
(* SpecFold applies update_unit_status_from_payload to payloads drawn from *)
(*          a bounded set of item records, call after call on one          *)
(*          UnitStatus.                                                    *)
(***************************************************************************)
EXTENDS Integers, Sequences, FiniteSets, TLC

VARIABLES
    pc,                 \* the await (or loop head) the task is suspended at
    slugs,              \* main's argument: a sequence of slugs, <<>> for None
    slugIdx,            \* number of slugs the for loop of main has taken
    session,            \* "new" | "started" | "closed": start() / close()
    closeCalls,         \* number of calls of close()
    loginNavigated,     \* whether login() navigated to the login page
    pageDoc,            \* the document the page shows: [course, unit]
    listeners,          \* the page's "response" listeners, by the visit that added them
    courseTitle,        \* traverse_course: title
    unit_urls,          \* traverse_course: unit_urls
    unitIdx,            \* number of unit_urls the for loop has taken
    statuses,           \* traverse_course: statuses
    table,              \* rows of the table printed for the course
    captured_responses, \* fetch_unit_progress: captured_responses
    title,              \* fetch_unit_progress: title
    status,             \* fetch_unit_progress: status (the UnitStatus folded into)
    drainIdx,           \* number of captured responses the drain loop has taken
    removed,            \* calls of remove_listener in the current visit
    warnings,           \* warning lines printed by the current fold or drain
    visitLog,           \* history: the visits of the current course and how each ended
    courseLog,          \* history: how the last course traversal ended
    attempted,          \* history: the slugs traverse_course was called with
    frest,              \* SpecFold: item records not folded yet
    fdone,              \* SpecFold: item records folded so far
    fcall               \* SpecFold: the last call: payload, status before, outcome

vars == <<pc, slugs, slugIdx, session, closeCalls, loginNavigated, pageDoc,
          listeners, courseTitle, unit_urls, unitIdx, statuses, table,
          captured_responses, title, status, drainIdx, removed, warnings,
          visitLog, courseLog, attempted, frest, fdone, fcall>>

progVars == <<pc, slugs, slugIdx, session, closeCalls, loginNavigated, pageDoc,
              listeners, courseTitle, unit_urls, unitIdx, statuses, table,
              captured_responses, title, drainIdx, removed,
              visitLog, courseLog, attempted>>

foldVars == <<frest, fdone, fcall>>

(***************************************************************************)
(* Bounds of the model.                                                    *)
(***************************************************************************)
MaxUnits == 2       \* unit anchors a course page exposes, at most
MaxResp == 2        \* responses the page reports during one unit visit, at most
MaxItems == 3       \* item records folded in one run of SpecFold, at most

(***************************************************************************)
(* JSON values as Python sees them after response.json(): None, a str, a   *)
(* dict (a function from its keys) or a list.  Raised is the result of an  *)
(* expression that raised.                                                 *)
(***************************************************************************)
Null == [t |-> "null"]
Str(s) == [t |-> "str", v |-> s]
Obj(f) == [t |-> "obj", v |-> f]
List(s) == [t |-> "list", v |-> s]
Raised == [t |-> "raise"]
EmptyObj == Obj([k \in {} |-> Null])

\* dict.get(key, default); AttributeError when d is not a dict
DictGet(d, key, default) ==
    IF d.t = "raise" THEN Raised
    ELSE IF d.t # "obj" THEN Raised
    ELSE IF key \in DOMAIN d.v THEN d.v[key]
    ELSE default

(***************************************************************************)
(* UnitStatus and its derived property.                                    *)
(***************************************************************************)
UnitStatus(course, unit_title) ==
    [course |-> course, unit_title |-> unit_title,
     completed_articles |-> 0, completed_exercises |-> 0, completed_videos |-> 0,
     unread_articles |-> 0, unmastered_exercises |-> 0, unwatched_videos |-> 0]

\* is_done with the unwatched videos left out of the test
is_done_without_videos(s) ==
    /\ s.unread_articles = 0
    /\ s.unmastered_exercises = 0

is_done(s) ==
    /\ s.unread_articles = 0
    /\ s.unmastered_exercises = 0
    /\ s.unwatched_videos = 0

Counters == {"completed_articles", "completed_exercises", "completed_videos",
             "unread_articles", "unmastered_exercises", "unwatched_videos"}

Total(s) == s.completed_articles + s.completed_exercises + s.completed_videos
            + s.unread_articles + s.unmastered_exercises + s.unwatched_videos

(***************************************************************************)
(* update_unit_status_from_payload.  FoldItem is the body of its for loop; *)
(* a fold result is the status as mutated so far, the warnings printed and *)
(* whether an exception ended it.                                          *)
(***************************************************************************)
\* Bump that also takes a completed item off the needs-attention counter of
\* its category
BumpMoving(s, counter) ==
    LET other == CASE counter = "completed_articles" -> "unread_articles"
                   [] counter = "completed_videos" -> "unwatched_videos"
                   [] counter = "completed_exercises" -> "unmastered_exercises"
                   [] OTHER -> counter
    IN  IF other = counter
        THEN [s EXCEPT ![counter] = @ + 1]
        ELSE [s EXCEPT ![counter] = @ + 1, ![other] = @ - 1]

Bump(s, counter) == [s EXCEPT ![counter] = @ + 1]

\* FoldItem with the completion test "any non-empty status" in place of == "COMPLETE"
FoldItemTruthy(s, item) ==
    LET cs == DictGet(item, "completionStatus", Str(""))
        ty == DictGet(DictGet(item, "content", EmptyObj), "__typename", Str(""))
        done == cs.t = "str" /\ cs.v # ""
        tag == IF ty.t = "str" THEN ty.v ELSE "?"
    IN  IF cs.t = "raise" \/ ty.t = "raise"
        THEN [status |-> s, warn |-> 0, raised |-> TRUE]
        ELSE CASE tag = "Article" ->
                [status |-> Bump(s, IF done THEN "completed_articles" ELSE "unread_articles"),
                 warn |-> 0, raised |-> FALSE]
               [] tag = "Video" ->
                [status |-> Bump(s, IF done THEN "completed_videos" ELSE "unwatched_videos"),
                 warn |-> 0, raised |-> FALSE]
               [] tag = "Exercise" ->
                [status |-> Bump(s, IF done THEN "completed_exercises" ELSE "unmastered_exercises"),
                 warn |-> 0, raised |-> FALSE]
               [] OTHER -> [status |-> s, warn |-> 1, raised |-> FALSE]

\* FoldItem whose default case counts the item as an Article in place of warning
FoldItemDefaultArticle(s, item) ==
    LET cs == DictGet(item, "completionStatus", Str(""))
        ty == DictGet(DictGet(item, "content", EmptyObj), "__typename", Str(""))
        done == cs.t = "str" /\ cs.v = "COMPLETE"
        tag == IF ty.t = "str" THEN ty.v ELSE "?"
    IN  IF cs.t = "raise" \/ ty.t = "raise"
        THEN [status |-> s, warn |-> 0, raised |-> TRUE]
        ELSE CASE tag = "Video" ->
                [status |-> Bump(s, IF done THEN "completed_videos" ELSE "unwatched_videos"),
                 warn |-> 0, raised |-> FALSE]
               [] tag = "Exercise" ->
                [status |-> Bump(s, IF done THEN "completed_exercises" ELSE "unmastered_exercises"),
                 warn |-> 0, raised |-> FALSE]
               [] OTHER ->
                [status |-> Bump(s, IF done THEN "completed_articles" ELSE "unread_articles"),
                 warn |-> 0, raised |-> FALSE]

\* lines 249-268: one iteration of "for item in item_progress"
FoldItem(s, item) ==
    LET cs == DictGet(item, "completionStatus", Str(""))
        is_completed == cs.t = "str" /\ cs.v = "COMPLETE"
        item_type == DictGet(DictGet(item, "content", EmptyObj), "__typename", Str(""))
        tag == IF item_type.t = "str" THEN item_type.v ELSE "?"
    IN  IF cs.t = "raise" \/ item_type.t = "raise"
        THEN [status |-> s, warn |-> 0, raised |-> TRUE]
        ELSE CASE tag = "Article" ->
                [status |-> Bump(s, IF is_completed THEN "completed_articles"
                                    ELSE "unread_articles"),
                 warn |-> 0, raised |-> FALSE]
               [] tag = "Video" ->
                [status |-> Bump(s, IF is_completed THEN "completed_videos"
                                    ELSE "unwatched_videos"),
                 warn |-> 0, raised |-> FALSE]
               [] tag = "Exercise" ->
                [status |-> Bump(s, IF is_completed THEN "completed_exercises"
                                    ELSE "unmastered_exercises"),
                 warn |-> 0, raised |-> FALSE]
               [] OTHER -> [status |-> s, warn |-> 1, raised |-> FALSE]

\* lines 245-247: payload.get("data", {}).get("user", {}).get("contentItemProgresses", [])
item_progress(payload) ==
    DictGet(DictGet(DictGet(payload, "data", EmptyObj), "user", EmptyObj),
            "contentItemProgresses", List(<<>>))

RECURSIVE FoldItems(_, _, _)
FoldItems(s, w, items) ==
    IF items = <<>> THEN [status |-> s, warn |-> w, raised |-> FALSE]
    ELSE LET r == FoldItem(s, Head(items))
         IN  IF r.raised THEN [status |-> r.status, warn |-> w, raised |-> TRUE]
             ELSE FoldItems(r.status, w + r.warn, Tail(items))

\* update_unit_status_from_payload that restarts the counters with each payload
update_unit_status_fresh_counts(s, payload) ==
    LET ip == item_progress(payload)
    IN  IF ip.t = "list"
        THEN FoldItems(UnitStatus(s.course, s.unit_title), 0, ip.v)
        ELSE [status |-> s, warn |-> 0, raised |-> TRUE]

\* lines 240-268: iterating anything but a list raises (None is not iterable)
update_unit_status_from_payload(s, payload) ==
    LET ip == item_progress(payload)
    IN  IF ip.t = "list" THEN FoldItems(s, 0, ip.v)
        ELSE [status |-> s, warn |-> 0, raised |-> TRUE]

(***************************************************************************)
(* Item records of the wire contract (completionStatus, content.__typename)*)
(* and the shapes around it: a status or a tag that is missing, empty,     *)
(* null or unknown, and a content that is null.                            *)
(***************************************************************************)
ItemOf(cs, ty) == Obj(("completionStatus" :> Str(cs)) @@ ("content" :> Obj("__typename" :> Str(ty))))

ItemRecords == <<
    ItemOf("COMPLETE", "Article"),
    ItemOf("INCOMPLETE", "Article"),
    ItemOf("COMPLETE", "Video"),
    Obj("content" :> Obj("__typename" :> Str("Video"))),
    ItemOf("COMPLETE", "Exercise"),
    ItemOf("INCOMPLETE", "Exercise"),
    Obj(("completionStatus" :> Null) @@ ("content" :> Obj("__typename" :> Str("Exercise")))),
    ItemOf("COMPLETE", "Quiz"),
    ItemOf("INCOMPLETE", ""),
    Obj(("completionStatus" :> Str("COMPLETE")) @@ ("content" :> EmptyObj)),
    EmptyObj,
    Obj(("completionStatus" :> Str("COMPLETE")) @@ ("content" :> Null)) >>

ItemIds == 1..Len(ItemRecords)

ItemsOf(ids) == [i \in 1..Len(ids) |-> ItemRecords[ids[i]]]

\* a response body of the progress endpoint carrying these items
PayloadOf(ids) ==
    Obj("data" :> Obj("user" :> Obj("contentItemProgresses" :> List(ItemsOf(ids)))))

SeqsUpTo(S, n) == UNION {[1..k -> S] : k \in 0..n}

(***************************************************************************)
(* SpecFold: successive calls of update_unit_status_from_payload on one    *)
(* UnitStatus.  The records to fold are drawn by Init; each call takes the *)
(* next k of them as one payload, so every order and every split occurs.   *)
(***************************************************************************)
NoCall == [called |-> FALSE, items |-> <<>>, before |-> UnitStatus("course", "unit"),
           beforeWarn |-> 0, raised |-> FALSE]

Idle ==
    /\ slugs = <<>> /\ slugIdx = 0 /\ session = "new" /\ closeCalls = 0
    /\ loginNavigated = FALSE /\ pageDoc = [course |-> 0, unit |-> 0]
    /\ listeners = <<>> /\ courseTitle = "" /\ unit_urls = <<>> /\ unitIdx = 0
    /\ statuses = <<>> /\ table = <<>> /\ captured_responses = <<>>
    /\ title = "" /\ drainIdx = 0 /\ removed = 0
    /\ visitLog = <<>> /\ courseLog = "none" /\ attempted = <<>>

InitFold ==
    /\ pc = "fold"
    /\ Idle
    /\ status = UnitStatus("course", "unit")
    /\ warnings = 0
    /\ frest \in SeqsUpTo(ItemIds, MaxItems)
    /\ fdone = <<>>
    /\ fcall = NoCall

FoldCall(k) ==
    /\ pc = "fold"
    /\ ~fcall.raised
    /\ k \in 0..Len(frest)
    /\ LET ids == SubSeq(frest, 1, k)
           r == update_unit_status_from_payload(status, PayloadOf(ids))
       IN  /\ status' = r.status
           /\ warnings' = warnings + r.warn
           /\ fcall' = [called |-> TRUE, items |-> ids, before |-> status,
                        beforeWarn |-> warnings, raised |-> r.raised]
           /\ fdone' = fdone \o ids
           /\ frest' = SubSeq(frest, k + 1, Len(frest))
    /\ UNCHANGED progVars

NextFold == \E k \in 0..MaxItems : FoldCall(k)

SpecFold == InitFold /\ [][NextFold]_vars

(***************************************************************************)
(* What the claims about the fold read off an item record: its category    *)
(* tag and its completion marker, as the wire contract states them.        *)
(***************************************************************************)
RecordHasObjContent(i) ==
    LET it == ItemRecords[i].v
    IN  "content" \in DOMAIN it /\ it["content"].t = "obj"

\* a content that is present and not an object is outside the wire contract
RecordWellFormed(i) ==
    LET it == ItemRecords[i].v
    IN  "content" \in DOMAIN it => it["content"].t = "obj"

RecordTag(i) ==
    LET it == ItemRecords[i].v
    IN  IF RecordHasObjContent(i) /\ "__typename" \in DOMAIN it["content"].v
        THEN it["content"].v["__typename"].v
        ELSE "<absent>"

RecordComplete(i) ==
    LET it == ItemRecords[i].v
    IN  /\ "completionStatus" \in DOMAIN it
        /\ it["completionStatus"].t = "str"
        /\ it["completionStatus"].v = "COMPLETE"

RecordRecognized(i) == RecordTag(i) \in {"Article", "Video", "Exercise"}

ExpectedCounter(i) ==
    CASE RecordTag(i) = "Article" ->
            IF RecordComplete(i) THEN "completed_articles" ELSE "unread_articles"
      [] RecordTag(i) = "Video" ->
            IF RecordComplete(i) THEN "completed_videos" ELSE "unwatched_videos"
      [] RecordTag(i) = "Exercise" ->
            IF RecordComplete(i) THEN "completed_exercises" ELSE "unmastered_exercises"
      [] OTHER -> "none"

CountIn(ids, c) == Cardinality({j \in 1..Len(ids) : ExpectedCounter(ids[j]) = c})

AllWellFormed(ids) == \A j \in 1..Len(ids) : RecordWellFormed(ids[j])

SameCounters(a, b) == \A c \in Counters : a[c] = b[c]

\* the records of ids in ascending order of their place in ItemRecords
RECURSIVE CanonFrom(_, _)
CanonFrom(ids, i) ==
    IF i > Len(ItemRecords) THEN <<>>
    ELSE [k \in 1..Cardinality({j \in 1..Len(ids) : ids[j] = i}) |-> i]
         \o CanonFrom(ids, i + 1)

Canon(ids) == CanonFrom(ids, 1)

(***************************************************************************)
(* C8: a call that folds one item record of a recognized category          *)
(* (Article, Video, Exercise) does not raise and raises exactly one        *)
(* counter by exactly 1, the other five staying as they were: the          *)
(* completed counter of the category when completionStatus is "COMPLETE",  *)
(* its needs-attention counter for any other status, a missing one         *)
(* included.                                                               *)
(***************************************************************************)
C8_OneCounterPerRecognizedItem ==
    (fcall.called /\ Len(fcall.items) = 1 /\ RecordRecognized(fcall.items[1]))
    => /\ ~fcall.raised
       /\ status = Bump(fcall.before, ExpectedCounter(fcall.items[1]))
       /\ RecordComplete(fcall.items[1])
            => ExpectedCounter(fcall.items[1])
                 \in {"completed_articles", "completed_videos", "completed_exercises"}
       /\ ~RecordComplete(fcall.items[1])
            => ExpectedCounter(fcall.items[1])
                 \in {"unread_articles", "unwatched_videos", "unmastered_exercises"}

\* a Video whose completionStatus is missing was folded alone, after two other records
C8_Witness ==
    /\ fcall.called /\ fcall.items = <<4>> /\ Len(fdone) = 3
    /\ Total(fcall.before) = 2
    /\ status.unwatched_videos = fcall.before.unwatched_videos + 1

(***************************************************************************)
(* C9: in a call whose item records are well formed, a record whose        *)
(* category tag is not Article, Video or Exercise (empty and absent tags   *)
(* included) changes no counter and prints one warning, and the fold goes  *)
(* on: every counter grows by the number of records of the payload that    *)
(* belong to it, wherever the unknown records stand, and the warnings grow *)
(* by the number of unknown records.  Calls after it fold in the same way. *)
(***************************************************************************)
C9_UnknownTagOnlyWarns ==
    (fcall.called /\ AllWellFormed(fcall.items))
    => /\ ~fcall.raised
       /\ \A c \in Counters : status[c] = fcall.before[c] + CountIn(fcall.items, c)
       /\ warnings = fcall.beforeWarn + CountIn(fcall.items, "none")
       /\ status.course = fcall.before.course
       /\ status.unit_title = fcall.before.unit_title

\* an unknown tag, then an Article, in a call that follows a call with an absent tag
C9_Witness ==
    /\ fcall.called /\ fcall.items = <<8, 1>> /\ fdone = <<11, 8, 1>>
    /\ fcall.beforeWarn = 1 /\ warnings = 2
    /\ status.completed_articles = 1 /\ Total(status) = 1

(***************************************************************************)
(* C10: the counters reached by folding item records in some order, split  *)
(* over some calls, are those of folding the same multiset in one call in  *)
(* ascending order: they depend on the multiset alone.                     *)
(***************************************************************************)
C10_OrderAndBatchIndependent ==
    (AllWellFormed(fdone) /\ ~fcall.raised)
    => SameCounters(status,
                    update_unit_status_from_payload(UnitStatus("course", "unit"),
                                                    PayloadOf(Canon(fdone))).status)

\* three records folded out of order over at least two calls
C10_Witness ==
    /\ Len(fdone) = 3 /\ Len(fcall.items) = 1 /\ fdone = <<6, 3, 1>>
    /\ ~fcall.raised /\ Total(status) = 3

(***************************************************************************)
(* The program: main, traverse_course, fetch_unit_progress.                *)
(*                                                                         *)
(* One asyncio task runs it, so pc names the await the task is suspended   *)
(* at ("loop", "c_loop" and "finally" are the heads of its loops and its   *)
(* finally block, where nothing else can run).  The browser is the         *)
(* environment: while the task awaits, the page may commit the navigation  *)
(* it was asked for and may report responses, which Playwright hands to    *)
(* every listener attached to the page.                                    *)
(***************************************************************************)
MATH_GRADE_SLUGS == <<
    "/math/cc-2nd-grade-math",
    "/math/cc-third-grade-math",
    "/math/cc-fourth-grade-math",
    "/math/cc-fifth-grade-math",
    "/math/cc-sixth-grade-math",
    "/math/cc-seventh-grade-math",
    "/math/cc-eighth-grade-math" >>

\* main's slugs argument: None (or no --slug flag), or an explicit list
SlugInputs == { <<>>, <<"/science/physics", "/science/physics">> }

\* line 275: slugs if slugs else MATH_GRADE_SLUGS
use_slugs == IF slugs # <<>> THEN slugs ELSE MATH_GRADE_SLUGS

\* hrefs of the unit-header anchors of a course page
UnitUrls == {"/u1", "/u2"}

\* inner_text() of the unit page's h1
UnitTitleOf(url) == "Unit " \o url

\* inner_text() of the course page's h1, when it has one
CourseTitles == {"", "Course"}

Doc(c, u) == [course |-> c, unit |-> u]

\* request URLs, as sequences of their parts
EndpointPath == <<"/api/internal/graphql/", "getUserInfoForTopicProgressMastery">>

ProgressUrl == <<"https://www.khanacademy.org", "/api/internal/graphql/",
                 "getUserInfoForTopicProgressMastery", "?lang=en">>

OtherUrl == <<"https://www.khanacademy.org", "/api/internal/graphql/",
              "getContentForPath", "?lang=en">>

RequestUrls == {ProgressUrl, OtherUrl}

\* needle in haystack
Contains(haystack, needle) ==
    \E i \in 1..(Len(haystack) - Len(needle) + 1) :
        SubSeq(haystack, i, i + Len(needle) - 1) = needle

\* response bodies; body 0 is one response.json() cannot parse
Bodies == <<
    PayloadOf(<<1, 6, 3>>),
    PayloadOf(<<>>),
    PayloadOf(<<8, 4>>),
    Obj("data" :> Obj("user" :> Null)) >>

BodyIds == 0..Len(Bodies)

\* on_response without the test of the request URL
on_response_any(buffer, response) == Append(buffer, response)

\* lines 197-203: on_response, appending to the captured_responses it closes over
on_response(buffer, response) ==
    IF Contains(response.url, EndpointPath) THEN Append(buffer, response) ELSE buffer

RECURSIVE RemoveOne(_, _)
RemoveOne(ls, l) ==
    IF ls = <<>> THEN <<>>
    ELSE IF Head(ls) = l THEN Tail(ls)
    ELSE <<Head(ls)>> \o RemoveOne(Tail(ls), l)

Digits == <<"0", "1", "2", "3", "4", "5", "6", "7", "8", "9">>

\* str() of a non-negative int
RECURSIVE str(_)
str(n) == IF n < 10 THEN Digits[n + 1] ELSE str(n \div 10) \o Digits[(n % 10) + 1]

\* lines 178-187: table.add_row
Row(s) == <<s.unit_title, str(s.completed_articles), str(s.unread_articles),
            str(s.completed_videos), str(s.unwatched_videos),
            str(s.completed_exercises), str(s.unmastered_exercises),
            IF is_done(s) THEN "done" ELSE "attention">>

AwaitPoints == {"login_nav", "c_goto", "c_title", "c_units", "v_goto", "v_title", "v_json"}

NoStatus == UnitStatus("", "")

Init ==
    /\ pc = "main"
    /\ slugs \in SlugInputs
    /\ slugIdx = 0 /\ session = "new" /\ closeCalls = 0
    /\ loginNavigated = FALSE /\ pageDoc = Doc(0, 0)
    /\ listeners = <<>> /\ courseTitle = "" /\ unit_urls = <<>> /\ unitIdx = 0
    /\ statuses = <<>> /\ table = <<>> /\ captured_responses = <<>>
    /\ title = "" /\ drainIdx = 0 /\ removed = 0
    /\ visitLog = <<>> /\ courseLog = "none" /\ attempted = <<>>
    /\ status = NoStatus /\ warnings = 0
    /\ frest = <<>> /\ fdone = <<>> /\ fcall = NoCall

courseVars == <<courseTitle, unit_urls, unitIdx, statuses, table, visitLog>>
visitVars == <<captured_responses, title, status, drainIdx, removed, warnings>>
mainVars == <<slugs, slugIdx, session, closeCalls, loginNavigated, attempted>>

(***************************************************************************)
(* The browser page.                                                       *)
(***************************************************************************)
\* the visit fetch_unit_progress is in, which names its listener and its buffer
CurrentVisit == Doc(slugIdx, unitIdx)

\* Playwright calls every listener of the page; the listener of the visit in
\* progress appends to captured_responses, one left over from an earlier visit
\* appends to that visit's buffer, which nothing reads any more
RECURSIVE Dispatch(_, _, _)
Dispatch(ls, buffer, response) ==
    IF ls = <<>> THEN buffer
    ELSE Dispatch(Tail(ls),
                  IF Head(ls) = CurrentVisit THEN on_response(buffer, response) ELSE buffer,
                  response)

\* the navigation the task awaits commits: the page shows the new document
PageCommit ==
    /\ pc \in {"c_goto", "v_goto"}
    /\ LET target == IF pc = "c_goto" THEN Doc(slugIdx, 0) ELSE CurrentVisit
       IN  /\ pageDoc # target
           /\ pageDoc' = target
    /\ UNCHANGED <<pc, listeners, courseLog>>
    /\ UNCHANGED <<mainVars, courseVars, visitVars, foldVars>>

\* the page reports the response to a request of the document it shows
PageResponse(url, body) ==
    /\ pc \in AwaitPoints
    /\ Len(captured_responses) < MaxResp
    /\ captured_responses' =
           Dispatch(listeners, captured_responses,
                    [origin |-> pageDoc, url |-> url, body |-> body])
    /\ UNCHANGED <<pc, pageDoc, listeners, courseLog, title, status, drainIdx,
                   removed, warnings>>
    /\ UNCHANGED <<mainVars, courseVars, foldVars>>

(***************************************************************************)
(* main (lines 271-284), with start, login and close.                      *)
(***************************************************************************)
\* line 273: start() completes, or launching the browser raises
main_start ==
    /\ pc = "main"
    /\ \/ /\ session' = "started"
          /\ pc' = "login"
       \/ /\ session' = session
          /\ pc' = "raised"
    /\ UNCHANGED <<slugs, slugIdx, closeCalls, loginNavigated, attempted, pageDoc,
                   listeners, courseLog>>
    /\ UNCHANGED <<courseVars, visitVars, foldVars>>

\* what the prompts of login may return
Identifiers == {"", " ", "user"}
Passwords == {"", " ", "secret"}

\* lines 103-104: str.strip() on the texts the prompts can return
strip(text) == IF text = " " THEN "" ELSE text

\* the test of login that ends the run only when both texts are empty
MissingCredentialBoth(identifier, password) == identifier = "" /\ password = ""

\* line 105: "if not identifier or not password"
MissingCredential(identifier, password) == identifier = "" \/ password = ""

\* lines 103-111: the credentials are read; a missing one raises SystemExit
login_input(identifier, password) ==
    /\ pc = "login"
    /\ IF MissingCredential(strip(identifier), strip(password))
       THEN /\ pc' = "exit"
            /\ UNCHANGED loginNavigated
       ELSE /\ pc' = "login_nav"
            /\ loginNavigated' = TRUE
    /\ UNCHANGED <<slugs, slugIdx, session, closeCalls, attempted, pageDoc,
                   listeners, courseLog>>
    /\ UNCHANGED <<courseVars, visitVars, foldVars>>

\* lines 109-121: goto, fill, click and wait_for_load_state complete or raise
login_return(exc) ==
    /\ pc = "login_nav"
    /\ pc' = IF exc = "none" THEN "loop" ELSE "raised"
    /\ UNCHANGED <<pageDoc, listeners, courseLog>>
    /\ UNCHANGED <<mainVars, courseVars, visitVars, foldVars>>

\* lines 277-280: the for loop takes the next slug and calls traverse_course,
\* which starts its navigation; after the last slug the finally block runs
main_loop ==
    /\ pc = "loop"
    /\ IF slugIdx < Len(use_slugs)
       THEN /\ slugIdx' = slugIdx + 1
            /\ attempted' = Append(attempted, use_slugs[slugIdx + 1])
            /\ courseLog' = "running"
            /\ courseTitle' = "" /\ unit_urls' = <<>> /\ unitIdx' = 0
            /\ statuses' = <<>> /\ table' = <<>> /\ visitLog' = <<>>
            /\ removed' = 0
            /\ pc' = "c_goto"
       ELSE /\ pc' = "finally"
            /\ UNCHANGED <<slugIdx, attempted, courseLog, removed>>
            /\ UNCHANGED courseVars
    /\ UNCHANGED <<slugs, session, closeCalls, loginNavigated, pageDoc, listeners,
                   captured_responses, title, status, drainIdx, warnings>>
    /\ UNCHANGED foldVars

\* lines 283-284 and 123-136: close()
main_close ==
    /\ pc = "finally"
    /\ closeCalls' = closeCalls + 1
    /\ session' = "closed"
    /\ pc' = "done"
    /\ UNCHANGED <<slugs, slugIdx, loginNavigated, attempted, pageDoc, listeners,
                   courseLog>>
    /\ UNCHANGED <<courseVars, visitVars, foldVars>>

\* an except clause that leaves the for loop
PcAfterCourseErrorAbort == "finally"

\* lines 281-282: except Exception logs the error and the for loop goes on
PcAfterCourseError == "loop"

(***************************************************************************)
(* traverse_course (lines 138-189).                                        *)
(***************************************************************************)
\* an exception leaves traverse_course and reaches main's except clause
CourseRaises ==
    /\ courseLog' = "Raised"
    /\ pc' = PcAfterCourseError

\* lines 139-141: page.goto returns or raises
course_goto_return(exc) ==
    /\ pc = "c_goto"
    /\ IF exc = "none"
       THEN /\ pageDoc = Doc(slugIdx, 0)
            /\ pc' = "c_title"
            /\ UNCHANGED courseLog
       ELSE CourseRaises
    /\ UNCHANGED <<pageDoc, listeners>>
    /\ UNCHANGED <<mainVars, courseVars, visitVars, foldVars>>

\* the test of the title that lets any text through, the empty one included
TitleAbsentNever(text) == FALSE

\* line 145: "if not title", an empty text of the course heading
TitleAbsent(text) == text = ""

\* lines 142-151: inner_text of the course heading; an empty title ends the course
course_title_return(exc, text) ==
    /\ pc = "c_title"
    /\ IF exc # "none"
       THEN CourseRaises /\ UNCHANGED courseTitle
       ELSE IF TitleAbsent(text)
       THEN /\ courseLog' = "CourseNotFound"
            /\ pc' = "loop"
            /\ UNCHANGED courseTitle
       ELSE /\ courseTitle' = text
            /\ pc' = "c_units"
            /\ UNCHANGED courseLog
    /\ UNCHANGED <<pageDoc, listeners, unit_urls, unitIdx, statuses, table, visitLog>>
    /\ UNCHANGED <<mainVars, visitVars, foldVars>>

\* the test of the unit list that lets an empty list through to the report
NoUnitsNever(urls) == FALSE

\* line 157: "if not unit_urls", no unit-header anchor on the course page
NoUnits(urls) == urls = <<>>

\* lines 153-161: the hrefs of the unit headers; none ends the course
course_units_return(exc, urls) ==
    /\ pc = "c_units"
    /\ IF exc # "none"
       THEN CourseRaises /\ UNCHANGED <<unit_urls, statuses>>
       ELSE IF NoUnits(urls)
       THEN /\ courseLog' = "NoUnitsFound"
            /\ pc' = "loop"
            /\ UNCHANGED <<unit_urls, statuses>>
       ELSE /\ unit_urls' = urls
            /\ statuses' = <<>>
            /\ pc' = "c_loop"
            /\ UNCHANGED courseLog
    /\ UNCHANGED <<pageDoc, listeners, courseTitle, unitIdx, table, visitLog>>
    /\ UNCHANGED <<mainVars, visitVars, foldVars>>

\* lines 167-189: after the last unit the table is built and printed
course_render ==
    /\ pc = "c_loop"
    /\ unitIdx = Len(unit_urls)
    /\ table' = [i \in 1..Len(statuses) |-> Row(statuses[i])]
    /\ courseLog' = "Report"
    /\ pc' = "loop"
    /\ UNCHANGED <<pageDoc, listeners, courseTitle, unit_urls, unitIdx, statuses, visitLog>>
    /\ UNCHANGED <<mainVars, visitVars, foldVars>>

(***************************************************************************)
(* fetch_unit_progress (lines 191-238).                                    *)
(***************************************************************************)
\* the except clauses with Exception tried before TimeoutError
FailureOfGeneric(exc) == "NavigationError"

\* lines 213-218: which except clause handles what the try block raised
FailureOf(exc) == IF exc = "timeout" THEN "Timeout" ELSE "NavigationError"

\* a cleanup that runs only when the try block raised nothing
FinallyOnSuccessOnly(ls, visit, exc) ==
    IF exc = "none" THEN [listeners |-> RemoveOne(ls, visit), removed |-> 1]
    ELSE [listeners |-> ls, removed |-> 0]

\* a cleanup done in the except clauses only
FinallyOnFailureOnly(ls, visit, exc) ==
    IF exc = "none" THEN [listeners |-> ls, removed |-> 0]
    ELSE [listeners |-> RemoveOne(ls, visit), removed |-> 1]

\* lines 219-221: the finally block, whatever the try block did
Finally(ls, visit, exc) == [listeners |-> RemoveOne(ls, visit), removed |-> 1]

\* a visit that never gives up for want of responses
NoDataNever(buffer) == FALSE

\* line 223: if not captured_responses
NoData(buffer) == buffer = <<>>

\* statuses.insert(0, status)
AppendStatusFirst(sts, st) == <<st>> \o sts

\* lines 164-165: if status: statuses.append(status)
AppendStatus(sts, st) == Append(sts, st)

\* lines 163-164 for a visit that returned None: nothing is appended
SkipStatus(sts, url) == sts

\* the visit is over: its locals are gone
VisitLocalsGone ==
    /\ captured_responses' = <<>>
    /\ title' = ""
    /\ status' = NoStatus
    /\ drainIdx' = 0
    /\ warnings' = 0

\* history of a visit: its URL, what its try block raised, how it ended, how many
\* responses it had captured, and the bodies its drain loop took
Logged(exc, outcome) ==
    [url |-> unit_urls[unitIdx], exc |-> exc, outcome |-> outcome,
     captured |-> Len(captured_responses),
     drained |-> [i \in 1..(IF outcome = "Snapshot" THEN Len(captured_responses)
                            ELSE IF outcome = "Raised" THEN drainIdx + 1 ELSE 0)
                  |-> captured_responses[i].body]]

\* lines 162-163 and 194-208: the for loop takes the next unit URL and calls
\* fetch_unit_progress, which attaches on_response and starts the navigation
fetch_unit_progress_arm ==
    /\ pc = "c_loop"
    /\ unitIdx < Len(unit_urls)
    /\ unitIdx' = unitIdx + 1
    /\ captured_responses' = <<>>
    /\ title' = "Unknown unit"
    /\ listeners' = Append(listeners, Doc(slugIdx, unitIdx + 1))
    /\ removed' = 0
    /\ drainIdx' = 0
    /\ status' = NoStatus
    /\ warnings' = 0
    /\ pc' = "v_goto"
    /\ UNCHANGED <<pageDoc, courseLog, courseTitle, unit_urls, statuses, table, visitLog>>
    /\ UNCHANGED <<mainVars, foldVars>>

\* lines 213-221 and 163-164: an except clause logs and returns None, the finally
\* block detaches the listener, and traverse_course skips the unit
VisitFails(exc) ==
    LET fin == Finally(listeners, CurrentVisit, exc)
    IN  /\ listeners' = fin.listeners
        /\ removed' = removed + fin.removed
        /\ visitLog' = Append(visitLog, Logged(exc, FailureOf(exc)))
        /\ statuses' = SkipStatus(statuses, unit_urls[unitIdx])
        /\ VisitLocalsGone
        /\ pc' = "c_loop"
        /\ UNCHANGED <<pageDoc, courseLog, courseTitle, unit_urls, unitIdx, table>>
        /\ UNCHANGED <<mainVars, foldVars>>

\* line 208: page.goto returns once the network is idle, or raises
fetch_unit_progress_goto_return(exc) ==
    /\ pc = "v_goto"
    /\ IF exc = "none"
       THEN /\ pageDoc = CurrentVisit
            /\ pc' = "v_title"
            /\ UNCHANGED <<pageDoc, listeners, courseLog>>
            /\ UNCHANGED <<mainVars, courseVars, visitVars, foldVars>>
       ELSE VisitFails(exc)

\* lines 209-227: inner_text returns the title or raises; the listener is
\* detached; without captured responses the visit returns None, else the drain
\* loop starts on a fresh UnitStatus
fetch_unit_progress_title_return(exc) ==
    /\ pc = "v_title"
    /\ IF exc # "none"
       THEN VisitFails(exc)
       ELSE LET fin == Finally(listeners, CurrentVisit, "none")
                t == UnitTitleOf(unit_urls[unitIdx])
            IN  /\ listeners' = fin.listeners
                /\ removed' = removed + fin.removed
                /\ IF NoData(captured_responses)
                   THEN /\ visitLog' = Append(visitLog, Logged("none", "NoData"))
                        /\ statuses' = SkipStatus(statuses, unit_urls[unitIdx])
                        /\ VisitLocalsGone
                        /\ pc' = "c_loop"
                   ELSE IF captured_responses = <<>>
                   THEN /\ visitLog' = Append(visitLog, Logged("none", "Snapshot"))
                        /\ statuses' = AppendStatus(statuses, UnitStatus(courseTitle, t))
                        /\ VisitLocalsGone
                        /\ pc' = "c_loop"
                   ELSE /\ title' = t
                        /\ status' = UnitStatus(courseTitle, t)
                        /\ drainIdx' = 0
                        /\ warnings' = 0
                        /\ pc' = "v_json"
                        /\ UNCHANGED <<captured_responses, visitLog, statuses>>
                /\ UNCHANGED <<pageDoc, courseLog, courseTitle, unit_urls, unitIdx, table>>
                /\ UNCHANGED <<mainVars, foldVars>>

\* the drain loop without its except clause: what response.json() raises
\* leaves the visit
json_failed_propagates(st) == [status |-> st, warn |-> 1, raised |-> TRUE]

\* lines 232-234: response.json() raised; the error is printed and the loop
\* continues with the accumulator as it was
json_failed(st) == [status |-> st, warn |-> 1, raised |-> FALSE]

\* lines 229-238 and 164-165: response.json() of the next captured response
\* returns or raises; a parsed payload is folded into status; after the last
\* response the visit returns status and traverse_course appends it.  What
\* update_unit_status_from_payload raises is caught nowhere before main.
fetch_unit_progress_json_return ==
    /\ pc = "v_json"
    /\ LET response == captured_responses[drainIdx + 1]
           r == IF response.body = 0
                THEN json_failed(status)
                ELSE update_unit_status_from_payload(status, Bodies[response.body])
       IN  IF r.raised
           THEN /\ visitLog' = Append(visitLog, Logged("none", "Raised"))
                /\ CourseRaises
                /\ VisitLocalsGone
                /\ UNCHANGED statuses
           ELSE IF drainIdx + 1 < Len(captured_responses)
           THEN /\ status' = r.status
                /\ warnings' = warnings + r.warn
                /\ drainIdx' = drainIdx + 1
                /\ UNCHANGED <<pc, courseLog, captured_responses, title, visitLog, statuses>>
           ELSE /\ visitLog' = Append(visitLog, Logged("none", "Snapshot"))
                /\ statuses' = AppendStatus(statuses, r.status)
                /\ VisitLocalsGone
                /\ pc' = "c_loop"
                /\ UNCHANGED courseLog
    /\ UNCHANGED <<pageDoc, listeners, removed, courseTitle, unit_urls, unitIdx, table>>
    /\ UNCHANGED <<mainVars, foldVars>>

Excs == {"none", "timeout", "error"}

Next ==
    \/ main_start
    \/ \E identifier \in Identifiers, password \in Passwords :
          login_input(identifier, password)
    \/ \E exc \in Excs : login_return(exc)
    \/ main_loop
    \/ main_close
    \/ \E exc \in Excs : course_goto_return(exc)
    \/ \E exc \in Excs, text \in CourseTitles : course_title_return(exc, text)
    \/ \E exc \in Excs, urls \in SeqsUpTo(UnitUrls, MaxUnits) : course_units_return(exc, urls)
    \/ course_render
    \/ fetch_unit_progress_arm
    \/ \E exc \in Excs : fetch_unit_progress_goto_return(exc)
    \/ \E exc \in Excs : fetch_unit_progress_title_return(exc)
    \/ fetch_unit_progress_json_return
    \/ PageCommit
    \/ \E url \in RequestUrls, body \in BodyIds : PageResponse(url, body)

Spec == Init /\ [][Next]_vars

(***************************************************************************)
(* What the claims about the traversal read off the history.               *)
(***************************************************************************)
InVisitTry == pc \in {"v_goto", "v_title"}

IsSnapshot(e) == e.outcome = "Snapshot"

\* the visits of the course that returned a snapshot, in the order made
Successes == SelectSeq(visitLog, IsSnapshot)

\* the place in statuses of the snapshot visit j returned
SnapshotsUpTo(j) == Cardinality({i \in 1..j : IsSnapshot(visitLog[i])})

VisitedUrls == [i \in 1..Len(visitLog) |-> visitLog[i].url]

\* the course traversal is over: control is back in main
CourseOver == pc \in {"loop", "finally", "done"} /\ courseLog # "none"

(***************************************************************************)
(* C1: the listener a unit visit attaches is attached while the visit is   *)
(* in its try block and at no other time: once the visit has left the try  *)
(* block, by success, timeout, any other error or no data, remove_listener *)
(* has been called exactly once for it and no listener is attached to the  *)
(* page.                                                                   *)
(***************************************************************************)
C1_ListenerRemovedOncePerVisit ==
    /\ InVisitTry => (listeners = <<CurrentVisit>> /\ removed = 0)
    /\ ~InVisitTry => listeners = <<>>
    /\ (unitIdx > 0 /\ ~InVisitTry) => removed = 1
    /\ (unitIdx > 0 /\ pc # "v_json" /\ ~InVisitTry) => Len(visitLog) = unitIdx

\* a visit that timed out and one that met another error have both returned
C1_Witness ==
    /\ pc = "c_loop" /\ Len(visitLog) = 2
    /\ visitLog[1].outcome = "Timeout" /\ visitLog[1].captured = 1
    /\ visitLog[2].outcome = "NavigationError"
    /\ removed = 1 /\ listeners = <<>>

(***************************************************************************)
(* C2: when the drain loop of the visit of unit B runs, no response in its *)
(* buffer was issued by the page of another unit A: every response that    *)
(* parses, so is counted for B, and that a unit page issued was issued by  *)
(* B's page.                                                               *)
(***************************************************************************)
C2_NoCrossContamination ==
    pc = "v_json" =>
        \A i \in 1..Len(captured_responses) :
            LET origin == captured_responses[i].origin
            IN  (/\ captured_responses[i].body # 0
                 /\ origin.unit # 0
                 /\ unit_urls[origin.unit] # unit_urls[unitIdx])
                => origin = CurrentVisit

(***************************************************************************)
(* C3: when a course traversal that discovered unit URLs is over, however  *)
(* it and its visits ended, the unit visitor has been called once for each *)
(* discovered URL, in discovery order.                                     *)
(***************************************************************************)
C3_EveryDiscoveredUnitVisited ==
    (CourseOver /\ unit_urls # <<>>) => VisitedUrls = unit_urls

(***************************************************************************)
(* C4: a visit whose navigation and title lookup succeeded and that        *)
(* captured no response ends with NoData, and no visit without a captured  *)
(* response returns a snapshot; NoData is logged only for such a visit.  A *)
(* visit that captured one response, whose item list is empty, returns a   *)
(* snapshot whose six counters are zero and which is done.                 *)
(***************************************************************************)
C4_NoDataVersusEmptySnapshot ==
    \A j \in 1..Len(visitLog) :
        LET e == visitLog[j]
        IN  /\ (e.exc = "none" /\ e.captured = 0) => e.outcome = "NoData"
            /\ e.captured = 0 => ~IsSnapshot(e)
            /\ e.outcome = "NoData" => (e.captured = 0 /\ e.exc = "none")
            /\ (IsSnapshot(e) /\ Len(e.drained) = 1 /\ e.drained[1] # 0
                  /\ Bodies[e.drained[1]] = PayloadOf(<<>>))
               => /\ SnapshotsUpTo(j) \in 1..Len(statuses)
                  /\ \A c \in Counters : statuses[SnapshotsUpTo(j)][c] = 0
                  /\ is_done(statuses[SnapshotsUpTo(j)])

\* one visit of the course ended with NoData, the next with an all-zero snapshot
C4_Witness ==
    /\ Len(visitLog) = 2 /\ Len(statuses) = 1
    /\ visitLog[1].outcome = "NoData" /\ visitLog[1].captured = 0
    /\ IsSnapshot(visitLog[2]) /\ visitLog[2].captured = 1
    /\ Bodies[visitLog[2].drained[1]] = PayloadOf(<<>>)
    /\ Total(statuses[1]) = 0 /\ is_done(statuses[1])

(***************************************************************************)
(* C5: the visits of a course are those of its discovered URLs in          *)
(* discovery order; statuses holds one snapshot per visit that succeeded,  *)
(* in that order, duplicates kept and failed visits absent; a printed      *)
(* table follows the visit of every discovered URL and has one row per     *)
(* snapshot, in the same order.                                            *)
(***************************************************************************)
C5_ReportIsSuccessfulVisitsInOrder ==
    /\ Len(visitLog) <= Len(unit_urls)
    /\ VisitedUrls = SubSeq(unit_urls, 1, Len(visitLog))
    /\ pc # "v_json" =>
          /\ Len(statuses) = Len(Successes)
          /\ \A i \in 1..Len(statuses) :
                statuses[i].unit_title = UnitTitleOf(Successes[i].url)
    /\ courseLog = "Report" =>
          /\ VisitedUrls = unit_urls
          /\ Len(table) = Len(Successes)
          /\ \A i \in 1..Len(table) :
                /\ table[i][1] = UnitTitleOf(Successes[i].url)
                /\ table[i] = Row(statuses[i])
    /\ courseLog # "Report" => table = <<>>

\* a URL discovered twice was visited twice and has two rows
C5_Witness ==
    /\ courseLog = "Report" /\ unit_urls = <<"/u1", "/u1">>
    /\ Len(table) = 2 /\ table[1][1] = "Unit /u1" /\ table[2][1] = "Unit /u1"
    /\ table[1] # table[2]

(***************************************************************************)
(* C6: a visit whose navigation or title lookup timed out ends with a      *)
(* Timeout failure, one that raised another error with a NavigationError   *)
(* failure; neither drains a captured response nor adds a snapshot:        *)
(* statuses holds exactly the snapshots of the visits that raised nothing, *)
(* and a UnitStatus is folded into only while the drain loop runs.         *)
(***************************************************************************)
C6_TimeoutAndNavigationError ==
    /\ \A j \in 1..Len(visitLog) :
          LET e == visitLog[j]
          IN  /\ e.exc = "timeout" => e.outcome = "Timeout"
              /\ e.exc = "error" => e.outcome = "NavigationError"
              /\ e.exc # "none" => e.drained = <<>>
              /\ e.outcome \in {"Timeout", "NavigationError"} => e.exc # "none"
    /\ pc # "v_json" => (status = NoStatus /\ Len(statuses) = Len(Successes))

\* a visit timed out after it had captured two responses; nothing was reported for it
C6_Witness ==
    /\ pc = "c_loop" /\ Len(visitLog) = 1
    /\ visitLog[1].exc = "timeout" /\ visitLog[1].outcome = "Timeout"
    /\ visitLog[1].captured = 2 /\ statuses = <<>>

(***************************************************************************)
(* C7: the slugs main has called traverse_course with are the first        *)
(* slugIdx slugs of its list, each once and in list order; a course that   *)
(* raised or returned early leaves main in its for loop, and main reaches  *)
(* its finally block only after it has attempted every slug of the list.   *)
(***************************************************************************)
C7_EveryCourseAttempted ==
    /\ slugIdx <= Len(use_slugs)
    /\ attempted = SubSeq(use_slugs, 1, slugIdx)
    /\ pc \in {"finally", "done"} => attempted = use_slugs
    /\ courseLog \in {"Raised", "CourseNotFound", "NoUnitsFound"}
          => pc \in {"loop", "finally", "done"}

\* every course of the built-in list raised before its page loaded; all were attempted
C7_Witness ==
    /\ pc = "done" /\ slugs = <<>> /\ attempted = MATH_GRADE_SLUGS
    /\ pageDoc = Doc(0, 0) /\ courseLog = "Raised"

(***************************************************************************)
(* C11: the done marker of a unit is computed from its snapshot when the   *)
(* report is rendered and is no field of the snapshot: in every printed    *)
(* report, the row of a snapshot is marked done exactly when its unread    *)
(* articles, unmastered exercises and unwatched videos are all 0, whatever *)
(* its completed counters are, so a snapshot that counted no item at all   *)
(* is marked done.                                                         *)
(***************************************************************************)
C11_DoneIffNothingNeedsAttention ==
    /\ DOMAIN status = {"course", "unit_title"} \cup Counters
    /\ \A i \in 1..Len(statuses) :
          DOMAIN statuses[i] = {"course", "unit_title"} \cup Counters
    /\ courseLog = "Report"
          => /\ Len(table) = Len(statuses)
             /\ \A i \in 1..Len(table) :
                   /\ table[i][8] \in {"done", "attention"}
                   /\ table[i][8] = "done"
                        <=> (/\ statuses[i].unread_articles = 0
                             /\ statuses[i].unmastered_exercises = 0
                             /\ statuses[i].unwatched_videos = 0)
                   /\ Total(statuses[i]) = 0 => table[i][8] = "done"

\* a report with a unit that counted nothing (done) and one whose only
\* item needing attention is an unwatched video
C11_Witness ==
    /\ courseLog = "Report" /\ Len(table) = 2
    /\ Total(statuses[1]) = 0 /\ table[1][8] = "done"
    /\ statuses[2].unwatched_videos = 1 /\ statuses[2].unread_articles = 0
    /\ statuses[2].unmastered_exercises = 0 /\ table[2][8] = "attention"

(***************************************************************************)
(* C12: while a course has no title (its heading was read as empty, the    *)
(* read raised, or it was not read yet) the course has discovered no unit, *)
(* has started no visit, has no listener attached and has collected no     *)
(* snapshot; a course whose heading was read as empty ends CourseNotFound, *)
(* back in main's loop with nothing printed, and is the only way to end    *)
(* so.                                                                     *)
(***************************************************************************)
C12_NoTitleNoVisit ==
    /\ courseTitle = ""
          => /\ pc \notin {"c_units", "c_loop", "v_goto", "v_title", "v_json"}
             /\ unit_urls = <<>> /\ unitIdx = 0
             /\ visitLog = <<>> /\ listeners = <<>>
             /\ captured_responses = <<>> /\ removed = 0
             /\ statuses = <<>> /\ table = <<>>
    /\ courseLog = "CourseNotFound"
          => /\ courseTitle = ""
             /\ pc \in {"loop", "finally", "done"}
             /\ pageDoc = Doc(slugIdx, 0)
    /\ (CourseOver /\ courseTitle = "" /\ courseLog # "Raised")
          => courseLog = "CourseNotFound"

\* the second course of the list had an empty heading
C12_Witness ==
    /\ courseLog = "CourseNotFound" /\ pc = "loop" /\ slugIdx = 2
    /\ pageDoc = Doc(2, 0) /\ courseTitle = "" /\ visitLog = <<>>
    /\ listeners = <<>>

(***************************************************************************)
(* C13: a titled course whose page has no unit-header anchor ends          *)
(* NoUnitsFound by returning to main's loop, not by raising: no visit was  *)
(* started, no listener attached, no snapshot collected and no table       *)
(* printed.  The unit loop and the report are reached only with at least   *)
(* one unit.  From there main's next step takes the next slug of its list  *)
(* when one is left, and goes to its finally block only when none is.      *)
(***************************************************************************)
C13_NoUnitsEndsCourseQuietly ==
    /\ [](/\ courseLog = "NoUnitsFound"
             => /\ courseTitle # "" /\ unit_urls = <<>> /\ unitIdx = 0
                /\ visitLog = <<>> /\ listeners = <<>>
                /\ statuses = <<>> /\ table = <<>>
                /\ pc \in {"loop", "finally", "done"}
                /\ pageDoc = Doc(slugIdx, 0)
          /\ pc \in {"c_loop", "v_goto", "v_title", "v_json"} => unit_urls # <<>>
          /\ courseLog = "Report" => unit_urls # <<>>)
    /\ [][(courseLog = "NoUnitsFound" /\ pc = "loop")
            => IF slugIdx < Len(use_slugs)
               THEN /\ pc' = "c_goto" /\ slugIdx' = slugIdx + 1
                    /\ attempted' = Append(attempted, use_slugs[slugIdx + 1])
                    /\ courseLog' = "running"
               ELSE pc' = "finally"]_vars

\* the first of two courses had a title and no unit; main is back in its loop
\* with the second course still to take
C13_Witness ==
    /\ courseLog = "NoUnitsFound" /\ pc = "loop" /\ slugIdx = 1
    /\ Len(use_slugs) = 2 /\ courseTitle = "Course" /\ pageDoc = Doc(1, 0)
    /\ visitLog = <<>> /\ table = <<>>

(***************************************************************************)
(* What the bodies of the page hold, read from the JSON itself.            *)
(***************************************************************************)
\* body b parses and holds a list at data.user.contentItemProgresses
BodyHasItems(b) ==
    /\ b # 0
    /\ Bodies[b].t = "obj" /\ "data" \in DOMAIN Bodies[b].v
    /\ Bodies[b].v["data"].t = "obj" /\ "user" \in DOMAIN Bodies[b].v["data"].v
    /\ Bodies[b].v["data"].v["user"].t = "obj"
    /\ "contentItemProgresses" \in DOMAIN Bodies[b].v["data"].v["user"].v
    /\ Bodies[b].v["data"].v["user"].v["contentItemProgresses"].t = "list"

\* the places in ItemRecords of the item records of body b
BodyItemIds(b) ==
    LET items == Bodies[b].v["data"].v["user"].v["contentItemProgresses"].v
    IN  [j \in 1..Len(items) |-> CHOOSE i \in ItemIds : ItemRecords[i] = items[j]]

\* the item records of counter c in the bodies bs that parse
RECURSIVE ParsedCount(_, _)
ParsedCount(bs, c) ==
    IF bs = <<>> THEN 0
    ELSE ParsedCount(Tail(bs), c)
         + (IF BodyHasItems(Head(bs)) THEN CountIn(BodyItemIds(Head(bs)), c) ELSE 0)

BodiesOf(responses) == [i \in 1..Len(responses) |-> responses[i].body]

(***************************************************************************)
(* C14: a buffered response whose body does not parse is skipped with one  *)
(* warning and never ends the visit.  During the drain the accumulator     *)
(* holds, counter by counter, the items of the parsed responses taken so   *)
(* far, whether they stand before or after an unparsable one, and the      *)
(* warnings printed are one per unparsable response and one per item of an *)
(* unknown category.  A visit that loaded with a non-empty buffer returns  *)
(* a snapshot holding the items of all its parsed responses, unless an     *)
(* exception left the drain, which happens only on a body that did parse.  *)
(***************************************************************************)
C14_UnparsableResponseSkipped ==
    /\ pc = "v_json"
          => LET taken == SubSeq(BodiesOf(captured_responses), 1, drainIdx)
             IN  /\ \A c \in Counters : status[c] = ParsedCount(taken, c)
                 /\ warnings = Cardinality({i \in 1..drainIdx : taken[i] = 0})
                                 + ParsedCount(taken, "none")
    /\ \A j \in 1..Len(visitLog) :
          LET e == visitLog[j]
          IN  /\ (e.exc = "none" /\ e.captured > 0) => e.outcome \in {"Snapshot", "Raised"}
              /\ e.outcome = "Snapshot"
                    => /\ Len(e.drained) = e.captured
                       /\ \A c \in Counters :
                             statuses[SnapshotsUpTo(j)][c] = ParsedCount(e.drained, c)
              /\ e.outcome = "Raised"
                    => /\ e.drained # <<>>
                       /\ e.drained[Len(e.drained)] # 0
                       /\ ~BodyHasItems(e.drained[Len(e.drained)])

\* two visits of a course returned a snapshot of three items: one from an
\* unparsable response followed by a parsable one, one from the reverse
C14_Witness ==
    /\ Len(visitLog) = 2 /\ Len(statuses) = 2
    /\ visitLog[1].outcome = "Snapshot" /\ visitLog[1].drained = <<0, 1>>
    /\ visitLog[2].outcome = "Snapshot" /\ visitLog[2].drained = <<1, 0>>
    /\ Total(statuses[1]) = 3 /\ Total(statuses[2]) = 3

(***************************************************************************)
(* C15: at the prompts of login, a step taken with an identifier or a      *)
(* password that is empty once stripped exists and can only end the run:   *)
(* it leaves the login page unvisited.  A run ended this way has navigated *)
(* nowhere, has taken no slug, has visited no unit and takes no further    *)
(* step.                                                                   *)
(***************************************************************************)
C15_MissingCredentialEndsRun ==
    /\ pc = "login"
          => \A identifier \in Identifiers, password \in Passwords :
                (strip(identifier) = "" \/ strip(password) = "")
                => /\ ENABLED login_input(identifier, password)
                   /\ ~ENABLED (/\ login_input(identifier, password)
                                /\ ~(pc' = "exit" /\ loginNavigated' = FALSE))
    /\ pc = "exit"
          => /\ ~loginNavigated /\ pageDoc = Doc(0, 0)
             /\ slugIdx = 0 /\ attempted = <<>> /\ courseLog = "none"
             /\ unitIdx = 0 /\ visitLog = <<>> /\ listeners = <<>>
             /\ statuses = <<>> /\ table = <<>>
             /\ ~ENABLED Next

\* the run ended at the prompts of a started session, with both slugs of
\* the command line untouched
C15_Witness ==
    /\ pc = "exit" /\ session = "started" /\ Len(use_slugs) = 2
    /\ ~loginNavigated /\ attempted = <<>>

(***************************************************************************)
(* C16: from the arming of a visit, before its navigation has committed,   *)
(* until its listener is removed, the listener of the visit is attached,   *)
(* and whatever the page then reports is handled by the URL of its request *)
(* alone: a response of the progress endpoint is appended at the end of    *)
(* the visit's buffer, whatever its body, and a response of another        *)
(* request leaves the buffer as it is.  So the buffer holds progress       *)
(* responses only.                                                         *)
(***************************************************************************)
C16_ArmedBeforeNavigationCapturesInOrder ==
    /\ InVisitTry => (Len(listeners) = 1 /\ listeners[1] = CurrentVisit)
    /\ (InVisitTry /\ Len(captured_responses) < MaxResp)
          => \A body \in BodyIds :
                /\ ENABLED PageResponse(ProgressUrl, body)
                /\ ~ENABLED (/\ PageResponse(ProgressUrl, body)
                             /\ captured_responses' #
                                  Append(captured_responses,
                                         [origin |-> pageDoc, url |-> ProgressUrl,
                                          body |-> body]))
                /\ ENABLED PageResponse(OtherUrl, body)
                /\ ~ENABLED (/\ PageResponse(OtherUrl, body)
                             /\ captured_responses' # captured_responses)
    /\ \A i \in 1..Len(captured_responses) :
          Contains(captured_responses[i].url, EndpointPath)

\* the buffer of the second unit holds a response reported before the
\* navigation committed and, after it, one reported while the title is read
C16_Witness ==
    /\ pc = "v_title" /\ unitIdx = 2 /\ Len(captured_responses) = 2
    /\ captured_responses[1].origin # CurrentVisit /\ captured_responses[1].body = 3
    /\ captured_responses[2].origin = CurrentVisit /\ captured_responses[2].body = 1
    /\ listeners = <<CurrentVisit>>

(***************************************************************************)
(* C17: through every call of the fold, those that raise part-way          *)
(* included, each of the six counters is a natural number no smaller than  *)
(* it was before the call, and the total of the six grows by at most the   *)
(* number of item records the call was given: by at most 1 for each        *)
(* record, as the calls given a single record show.                        *)
(***************************************************************************)
C17_CountersOnlyGrowByOne ==
    /\ \A c \in Counters :
          /\ status[c] \in Nat /\ fcall.before[c] \in Nat
          /\ status[c] >= fcall.before[c]
    /\ Total(status) <= Total(fcall.before) + Len(fcall.items)
    /\ Total(status) <= Len(fdone)
    /\ Len(fcall.items) = 1 => Total(status) \in {Total(fcall.before), Total(fcall.before) + 1}

\* a third call folded an incomplete Exercise alone onto a total of 2
C17_Witness ==
    /\ fcall.called /\ fcall.items = <<6>> /\ ~fcall.raised
    /\ Total(fcall.before) = 2 /\ Total(status) = 3
    /\ fcall.before.unmastered_exercises = 1 /\ status.unmastered_exercises = 2

\* the item records of a recognized category in the bodies bs that parse
RECURSIVE RecognizedIn(_)
RecognizedIn(bs) ==
    IF bs = <<>> THEN 0
    ELSE RecognizedIn(Tail(bs))
         + (IF BodyHasItems(Head(bs))
            THEN Cardinality({j \in 1..Len(BodyItemIds(Head(bs))) :
                                 RecordRecognized(BodyItemIds(Head(bs))[j])})
            ELSE 0)

(***************************************************************************)
(* C18: once the listener of a visit is removed nothing is attached, and   *)
(* no response the page reports while the buffer is drained changes the    *)
(* buffer, so the buffer drained is the buffer as it was at the removal.   *)
(* The total of the six counters of the accumulator is the number of       *)
(* Article, Video and Exercise records in the parsed responses taken so    *)
(* far, and that of every snapshot returned is their number in all the     *)
(* responses of its buffer that parsed.                                    *)
(***************************************************************************)
C18_ConservationOfItems ==
    /\ pc = "v_json"
          => /\ listeners = <<>> /\ removed = 1
             /\ captured_responses # <<>> /\ drainIdx < Len(captured_responses)
             /\ \A url \in RequestUrls, body \in BodyIds :
                   ~ENABLED (/\ PageResponse(url, body)
                             /\ captured_responses' # captured_responses)
             /\ Total(status)
                  = RecognizedIn(SubSeq(BodiesOf(captured_responses), 1, drainIdx))
    /\ \A j \in 1..Len(visitLog) :
          visitLog[j].outcome = "Snapshot"
          => /\ Len(visitLog[j].drained) = visitLog[j].captured
             /\ Total(statuses[SnapshotsUpTo(j)]) = RecognizedIn(visitLog[j].drained)

\* a snapshot of total 4 from two responses that hold five records, one of
\* them of an unknown category
C18_Witness ==
    /\ pc = "c_loop" /\ Len(visitLog) = 1 /\ Len(statuses) = 1
    /\ visitLog[1].outcome = "Snapshot" /\ visitLog[1].drained = <<3, 1>>
    /\ Total(statuses[1]) = 4

(***************************************************************************)
(* C19: close() is never called more than once, and whenever main has      *)
(* finished (it returned, or SystemExit or an exception left it) after     *)
(* start() had completed, close() was called exactly once and the session  *)
(* is closed.                                                              *)
(***************************************************************************)
C19_ClosedOnEveryExitPath ==
    /\ closeCalls <= 1
    /\ (pc \in {"done", "exit", "raised"} /\ session # "new")
          => (closeCalls = 1 /\ session = "closed")

====
